---- MODULE Spec2Model ----
(***************************************************************************)
(* SunCast: sunrise / sunset computation over a DEM raster.                *)
(*                                                                         *)
(* Number representation.  The program computes in IEEE doubles; the model *)
(* computes in scaled integers:                                            *)
(*   angles              milli-degrees   (1 degree = DEG = 1000)           *)
(*   sines, cosines, ... ten-thousandths (1.0 = ONE = 10000)               *)
(*   hours (times)       seconds         (1 hour = HOUR = 3600)            *)
(*   elevations          whole metres                                      *)
(* and NaN is one reserved code on which every comparison is false.        *)
(***************************************************************************)
EXTENDS Integers, Sequences, FiniteSets, TLC

DEG == 1000
ONE == 10000
HOUR == 3600
NaN == -2000000000

IsNaN(v) == v = NaN

\* IEEE comparisons: false as soon as one side is NaN.
FLt(a, b) == a # NaN /\ b # NaN /\ a < b
FGt(a, b) == a # NaN /\ b # NaN /\ a > b
FEq(a, b) == a # NaN /\ b # NaN /\ a = b
FGe(a, b) == a # NaN /\ b # NaN /\ a >= b

(***************************************************************************)
(* <cmath> as used by SolarCalculator.cpp, on the scaled integers.         *)
(***************************************************************************)

\* std::sin of an angle in degrees (the code multiplies by M_PI / 180 first).
\* Bhaskara's rational approximation on [0, 180], odd symmetry elsewhere.
SinPos(c) == (4 * (c * (18000 - c))) \div ((405000000 - c * (18000 - c)) \div 10000)

Sin(a) ==
    LET r == a % (360 * DEG)
        c == (IF r <= 180 * DEG THEN r ELSE r - 180 * DEG) \div 10
    IN  IF r <= 180 * DEG THEN SinPos(c) ELSE 0 - SinPos(c)

\* std::cos
Cos(a) == Sin(a + 90 * DEG)

\* std::tan
Tan(a) == (Sin(a) * ONE) \div Cos(a)

\* std::acos on [-1, 1], result in degrees: the angle in [0, 180] whose cosine is c
\* (bisection on the decreasing cosine, to a hundredth of a degree).
AcosStep(c, r) ==
    LET mid == (r[1] + r[2]) \div 2
    IN  IF r[2] - r[1] <= 1 THEN r
        ELSE IF Cos(mid * 10) <= c THEN <<r[1], mid>> ELSE <<mid, r[2]>>

AcosStep4(c, r) == AcosStep(c, AcosStep(c, AcosStep(c, AcosStep(c, r))))

AcosSearch(c) ==
    LET r == AcosStep4(c, AcosStep4(c, AcosStep4(c, AcosStep4(c, <<0, 18000>>))))
    IN  IF Cos(r[1] * 10) <= c THEN r[1] ELSE r[2]

\* The bisection is evaluated once per argument and looked up afterwards (@@ makes the
\* function an explicit table).
AcosTable == [c \in (0 - ONE)..ONE |-> AcosSearch(c) * 10] @@ <<>>

Acos(c) == IF IsNaN(c) THEN NaN ELSE AcosTable[c]

\* std::asin on [-1, 1], result in degrees
Asin(c) == IF IsNaN(c) THEN NaN ELSE 90 * DEG - Acos(c)

\* std::sqrt, result in hundredths; NaN for a negative argument
\* (bisection on the square).
SqrtStep(n, r) ==
    LET mid == (r[1] + r[2]) \div 2
    IN  IF r[2] - r[1] <= 1 THEN r
        ELSE IF mid * mid <= n THEN <<mid, r[2]>> ELSE <<r[1], mid>>

SqrtStep4(n, r) == SqrtStep(n, SqrtStep(n, SqrtStep(n, SqrtStep(n, r))))

SqrtSearch(n) == SqrtStep4(n, SqrtStep4(n, SqrtStep4(n, SqrtStep4(n, <<0, 40000>>))))[1]

\* The bisection is evaluated once for the arguments up to MaxRoot and looked up
\* afterwards.
MaxRoot == 300

SqrtTable == [v \in 0..MaxRoot |-> SqrtSearch(v * 10000)] @@ <<>>

Sqrt(v) ==
    IF IsNaN(v) \/ v < 0 THEN NaN
    ELSE IF v <= MaxRoot THEN SqrtTable[v]
    ELSE SqrtSearch(v * 10000)

(***************************************************************************)
(* SolarCalculator                                                         *)
(***************************************************************************)

SOLAR_DEPRESSION == 833

\* julianDay: the result is a half-integer; the model carries 2 * JD.
julianDay(yr, month, day) ==
    LET y0 == IF month <= 2 THEN yr - 1 ELSE yr
        m0 == IF month <= 2 THEN month + 12 ELSE month
        A == y0 \div 100
        B == 2 - A + (A \div 4)
    IN  2 * (((1461 * (y0 + 4716)) \div 4) + ((306001 * (m0 + 1)) \div 10000) + day + B) - 3049

\* julianCentury: t in millionths of a century; jd is 2 * JD.
julianCentury(jd) ==
    LET d2 == jd - 4903090
    IN  (d2 \div 7305) * 100000 + ((d2 % 7305) * 100000) \div 7305

sunGeomMeanLongitude(t) ==
    LET L0 == 280466 + t * 36 + (t * 77) \div 100000
                     + ((t \div 1000) * (t \div 1000) * 3) \div 10000000
    IN  IF L0 > 360 * DEG THEN ((L0 - 1) % (360 * DEG)) + 1
        ELSE IF L0 < 0 THEN L0 % (360 * DEG)
        ELSE L0

sunGeomMeanAnomaly(t) == 357529 + t * 36 - (t * 95) \div 100000

\* in millionths
earthOrbitEccentricity(t) == 16709 - (t * 42) \div 1000000

sunEquationOfCenter(t) ==
    LET m0 == sunGeomMeanAnomaly(t)
    IN  (Sin(m0) * (1915 - (t * 5) \div 1000000)) \div ONE
        + (Sin(2 * m0) * 20) \div ONE
        + (Sin(3 * m0) * 3) \div (10 * ONE)

sunTrueLongitude(t) == sunGeomMeanLongitude(t) + sunEquationOfCenter(t)

sunApparentLongitude(t) ==
    LET o == sunTrueLongitude(t)
    IN  o - 6 - (5 * Sin(125040 - t * 2 + (t * 66) \div 1000)) \div ONE

meanObliquityOfEcliptic(t) == 23 * DEG + 439 - (t * 13) \div 1000000

obliquityCorrection(t) ==
    LET e0 == meanObliquityOfEcliptic(t)
        omega == 125040 - t * 2 + (t * 66) \div 1000
    IN  e0 + (3 * Cos(omega)) \div ONE

sunDeclination(t) ==
    LET e == obliquityCorrection(t)
        lambda == sunApparentLongitude(t)
        sint == (Sin(e) * Sin(lambda)) \div ONE
    IN  Asin(sint)

\* equationOfTime: minutes in the code, seconds here.
equationOfTime(t) ==
    LET epsilon == obliquityCorrection(t)
        l0 == sunGeomMeanLongitude(t)
        e == earthOrbitEccentricity(t)
        m0 == sunGeomMeanAnomaly(t)
        th == Tan(epsilon \div 2)
        y0 == (th * th) \div 100
        sin2l0 == Sin(2 * l0)
        sinm == Sin(m0)
        cos2l0 == Cos(2 * l0)
        sin4l0 == Sin(4 * l0)
        sin2m == Sin(2 * m0)
        Etime == (y0 * sin2l0) \div ONE
                 - (2 * e * sinm) \div ONE
                 + (((((4 * ((e * y0) \div 1000000)) * sinm) \div ONE) * cos2l0) \div ONE)
                 - ((((y0 \div 10) * (y0 \div 10)) \div 10000) * sin4l0) \div (2 * ONE)
                 - (((((e * e) \div 1000000) * 125) \div 100) * sin2m) \div ONE
    IN  (Etime * 13751) \div 1000000


\* The locals of hourAngleSunrise, each from the ones before it:
\* elevationCorrection = -2.076 * sqrt(elevation) / 60.0 (root is the square root),
\* zenith = 90.0 + SOLAR_DEPRESSION + elevationCorrection, and cosHA.
ElevationCorrection(root) == IF root = NaN THEN NaN ELSE 0 - ((2076 * root) \div 6000)

Zenith(elevationCorrection) ==
    IF elevationCorrection = NaN THEN NaN
    ELSE 90 * DEG + SOLAR_DEPRESSION + elevationCorrection

CosHA(latitude, declination, zenith) ==
    IF zenith = NaN THEN NaN
    ELSE ((Cos(zenith) * ONE) \div ((Cos(latitude) * Cos(declination)) \div ONE))
         - ((Tan(latitude) * Tan(declination)) \div ONE)

\* the test on cosHA < -1.0 answering the hour angle of a sun that stays up (180 degrees)
HourAngleUpAllDay(cosHA) ==
    IF FGt(cosHA, ONE) THEN 0 - 1 * DEG
    ELSE IF FLt(cosHA, 0 - ONE) THEN 180 * DEG
    ELSE Acos(cosHA)

\* the two tests on cosHA and the arc cosine
HourAngle(cosHA) ==
    IF FGt(cosHA, ONE) THEN 0 - 1 * DEG
    ELSE IF FLt(cosHA, 0 - ONE) THEN 0 - 2 * DEG
    ELSE Acos(cosHA)

\* hourAngleSunrise: degrees, or -1.0 (the sun never rises) or -2.0 (never sets).
hourAngleSunrise(latitude, declination, elevation) ==
    HourAngle(CosHA(latitude, declination, Zenith(ElevationCorrection(Sqrt(elevation)))))

\* A finite double of magnitude 2^59 or more (1e18 is one): half the distance to its
\* neighbours is at least 64, so adding an hour of the day to it, or adding or
\* subtracting 24.0, gives the same double back. Its negative is 0 - Huge.
Huge == 1900000000

\* The result of a call that does not return.
Never == 1800000000

\* solarTime += timezoneOffset_
AddOffset(solarTime, tz) == IF tz = Huge \/ tz = 0 - Huge THEN tz ELSE solarTime + tz

\* The two normalisation loops of calculateSolarTime.
RECURSIVE WhileBelow(_)
WhileBelow(solarTime) ==
    IF solarTime = 0 - Huge THEN Never
    ELSE IF FLt(solarTime, 0) THEN WhileBelow(solarTime + 24 * HOUR) ELSE solarTime

RECURSIVE WhileAbove(_)
WhileAbove(solarTime) ==
    IF solarTime = Huge \/ solarTime = Never THEN Never
    ELSE IF FGe(solarTime, 24 * HOUR) THEN WhileAbove(solarTime - 24 * HOUR) ELSE solarTime

NO_EVENT == -9999 * HOUR

\* The years a run is asked for (main accepts 1900..2100).
Years == {1900, 2000, 2023, 2024}

\* The date-only part of calculateSolarTime (julianDay, julianCentury, equationOfTime,
\* sunDeclination), evaluated once per date and looked up afterwards.
Ephemeris ==
    [yr \in Years |-> [mo \in 1..12 |-> [dy \in 1..31 |->
        LET jd == julianDay(yr, mo, dy)
            t == julianCentury(jd)
        IN  [eqTime |-> equationOfTime(t), declination |-> sunDeclination(t)]] @@ <<>>]
                 @@ <<>>] @@ <<>>

\* the local time with the sunset offset on both sides of solar noon
LocalTimeAfterNoon(tz, longitude, eqTime, ha, isSunrise) ==
    LET solarNoon == 12 * HOUR - (240 * longitude) \div DEG - eqTime
        offset == (ha * 240) \div DEG
    IN  AddOffset(IF isSunrise THEN solarNoon + offset + offset ELSE solarNoon + offset, tz)

\* calculateSolarTime from solarNoon to the local time, before the two loops
LocalTime(tz, longitude, eqTime, ha, isSunrise) ==
    LET solarNoon == 12 * HOUR - (240 * longitude) \div DEG - eqTime
        offset == (ha * 240) \div DEG
        solarTime == IF isSunrise THEN solarNoon - offset ELSE solarNoon + offset
    IN  AddOffset(solarTime, tz)

\* calculateSolarTime from the test on ha on: eqTime and ha are already computed
SolarTime(tz, longitude, eqTime, ha, isSunrise) ==
    IF FLt(ha, 0) THEN NO_EVENT
    ELSE IF IsNaN(ha) THEN NaN
    ELSE WhileAbove(WhileBelow(LocalTime(tz, longitude, eqTime, ha, isSunrise)))

\* calculateSolarTime after eqTime and declination, which date holds
SolarTimeOn(date, tz, latitude, longitude, elevation, isSunrise) ==
    SolarTime(tz, longitude, date.eqTime,
              hourAngleSunrise(latitude, date.declination, elevation), isSunrise)

calculateSolarTime(tz, latitude, longitude, elevation, yr, month, day, isSunrise) ==
    SolarTimeOn(Ephemeris[yr][month][day], tz, latitude, longitude, elevation, isSunrise)

calculateSunrise(tz, latitude, longitude, elevation, yr, month, day) ==
    calculateSolarTime(tz, latitude, longitude, elevation, yr, month, day, TRUE)

calculateSunset(tz, latitude, longitude, elevation, yr, month, day) ==
    calculateSolarTime(tz, latitude, longitude, elevation, yr, month, day, FALSE)

(***************************************************************************)
(* The input raster file and the build                                     *)
(***************************************************************************)

\* Buffers hold width * height (or 512 * 512 * numBands) entries; the model follows the
\* entries of the first MaxTracked pixels and of the last pixel of each grid or tile.
MaxTracked == 2

Min(a, b) == IF a < b THEN a ELSE b

Tracked(n) == (0..(Min(MaxTracked, n) - 1)) \cup {n - 1}

\* The value of a buffer entry that nobody wrote since new[] returned the buffer, or
\* that the model did not follow so far.
UNINIT == 1999999999

\* width, height of the input raster: inside one tile, and over more than one tile
SmallGrids == {<<1, 1>>, <<2, 2>>}
TiledGrids == {<<513, 1>>, <<513, 513>>}

\* GDAL geotransforms (milli-degrees): the Alps, and Svalbard (polar day and night)
Alps == <<6000, 1, 0, 45500, 0, -1>>
Svalbard == <<20000, 1, 0, 80000, 0, -1>>

\* the no-data value of band 1, as float
NODATA_IN == -9999

\* Elevations of the raster, repeated along the rows from a rotation of this cycle:
\* a valid elevation, the no-data value, NaN, zero.
ElevCycle == <<250, NODATA_IN, NaN, 0>>

File(grid, gt, rot, bands) ==
    [width |-> grid[1], height |-> grid[2], geoTransform |-> gt, rot |-> rot,
     bands |-> bands, nodata |-> NODATA_IN]

\* the elevation stored in the file at column px, row py
Elevation(file, px, py) ==
    ElevCycle[((py * file.width + px + file.rot) % Len(ElevCycle)) + 1]

DefaultFile == File(<<2, 2>>, Alps, 0, 1)

Files ==
    {File(g, Alps, rot, 1) : g \in SmallGrids, rot \in 0..(Len(ElevCycle) - 1)}
    \cup {File(g, Alps, 0, 1) : g \in TiledGrids}
    \cup {File(<<2, 2>>, Svalbard, 0, 1)}
    \cup {File(<<2, 2>>, Alps, 0, 0)}         \* a raster without any band

\* The runs: the year, the input file, and whether the build has _OPENMP. Every year on
\* one file with both builds, every file in one year with the OpenMP build.
Runs ==
    {<<yr, DefaultFile, build>> : yr \in Years, build \in BOOLEAN}
    \cup {<<2024, f, TRUE>> : f \in Files}

\* sizeof
SizeofInt16 == 2
SizeofInt32 == 4
SizeofDouble == 8

VARIABLES
    pc,             \* where the process is
    openmp,         \* the build: compiled with _OPENMP or without
    streamMode, inputFile, year, timezoneOffset,      \* main's parsed arguments
    stdout, stderr, \* what was written to std::cout and to std::cerr
    flushed,        \* how much of stdout has been flushed
    success, exitCode,
    width, height, geoTransform, demNodata, isLeap, daysInYear,  \* locals of both modes
    demData, sunriseBuffer, sunsetBuffer, m, d, currentDayOfYear, \* streamBinaryOutput
    numBands, outputDataset, demBlock, outputBlock, x, y,
    processedBlocks,                                               \* processDEM
    ioLog,          \* the calls into GDAL that can fail, and how each one ended
    calcCalls,      \* how often the solar model was invoked, per pixel
    team, pending, writeLog,   \* a parallel region in progress: its worker threads, the
                               \* iterations not yet handed out, the stores done so far
    probe,          \* one direct use of a SolarCalculator: its arguments and results
    visited         \* the tiles the tile loop went through

vars == <<pc, openmp, streamMode, inputFile, year, timezoneOffset, stdout, stderr, flushed,
          success, exitCode, width, height, geoTransform, demNodata, isLeap, daysInYear,
          demData, sunriseBuffer, sunsetBuffer, m, d, currentDayOfYear,
          numBands, outputDataset, demBlock, outputBlock, x, y, processedBlocks, ioLog,
          calcCalls, team, pending, writeLog, probe, visited>>

ioVars == <<stdout, stderr, flushed>>
argVars == <<openmp, streamMode, inputFile, year, timezoneOffset>>
localVars == <<width, height, geoTransform, demNodata, isLeap, daysInYear>>
streamVars == <<demData, sunriseBuffer, sunsetBuffer, m, d, currentDayOfYear>>
rasterVars == <<numBands, outputDataset, demBlock, outputBlock, x, y, processedBlocks>>
regionVars == <<team, pending, writeLog>>
unitVars == <<probe, visited>>

\* success and exitCode before they are set
NONE == "none"

Text(s) == [kind |-> "text", val |-> s, bytes |-> Len(s)]
Bin(k, v, n) == [kind |-> k, val |-> v, bytes |-> n]

\* one call into GDAL for the window at (px, py), and whether it succeeded
Call(op, px, py, ok) == [op |-> op, x |-> px, y |-> py, ok |-> ok]

InitProgram ==
    /\ pc = "main"
    /\ stdout = <<>> /\ stderr = <<>> /\ flushed = 0
    /\ success = NONE /\ exitCode = NONE
    /\ width = 0 /\ height = 0 /\ geoTransform = <<>> /\ demNodata = 0
    /\ isLeap = FALSE /\ daysInYear = 0
    /\ demData = <<>> /\ sunriseBuffer = <<>> /\ sunsetBuffer = <<>>
    /\ m = 0 /\ d = 0 /\ currentDayOfYear = 0
    /\ numBands = 0 /\ outputDataset = <<>> /\ demBlock = <<>> /\ outputBlock = <<>>
    /\ x = 0 /\ y = 0 /\ processedBlocks = 0 /\ ioLog = <<>>
    /\ calcCalls = <<>>
    /\ team = <<>> /\ pending = {} /\ writeLog = <<>>

InitLocals == InitProgram /\ probe = <<>> /\ visited = <<>>

Init ==
    /\ streamMode \in BOOLEAN
    /\ \E run \in Runs : year = run[1] /\ inputFile = run[2] /\ openmp = run[3]
    /\ timezoneOffset = 1 * HOUR
    /\ InitLocals

(***************************************************************************)
(* DemProcessor                                                            *)
(***************************************************************************)

NODATA_VALUE == -9999 * HOUR

\* DemProcessor::DemProcessor
Construct ==
    /\ pc = "main"
    /\ pc' = "constructed"
    /\ IF openmp
       THEN /\ stderr' = Append(stderr, "OpenMP enabled")
            /\ UNCHANGED <<stdout, flushed>>
       ELSE /\ stdout' = Append(stdout, Text("OpenMP not available, running single-threaded"))
            /\ flushed' = Len(stdout')
            /\ UNCHANGED stderr
    /\ UNCHANGED <<regionVars, unitVars, argVars, success, exitCode, localVars, streamVars, rasterVars, ioLog,
                   calcCalls>>

\* main, the --stream branch up to the call of streamBinaryOutput
MainStream ==
    /\ pc = "constructed" /\ streamMode
    /\ stderr' = Append(stderr, "Starting binary stream")
    /\ pc' = "s_open"
    /\ UNCHANGED <<regionVars, unitVars, argVars, stdout, flushed, success, exitCode, localVars, streamVars,
                   rasterVars, ioLog, calcCalls>>

\* main, the raster branch up to the call of processDEM
MainRaster ==
    /\ pc = "constructed" /\ ~streamMode
    /\ stdout' = Append(stdout, Text("Solar Time Calculation / Configuration"))
    /\ flushed' = Len(stdout')
    /\ pc' = "r_open"
    /\ UNCHANGED <<regionVars, unitVars, argVars, stderr, success, exitCode, localVars, streamVars, rasterVars,
                   ioLog, calcCalls>>

pixelToGeo(gt, pixelX, pixelY) ==
    [lon |-> gt[1] + pixelX * gt[2] + pixelY * gt[3],
     lat |-> gt[4] + pixelX * gt[5] + pixelY * gt[6]]

IsLeapNoCentury(yr) == yr % 4 = 0 /\ yr % 100 # 0

IsLeap(yr) == (yr % 4 = 0 /\ yr % 100 # 0) \/ (yr % 400 = 0)

DaysInYear(leap) == IF leap THEN 366 ELSE 365

DaysInMonthNoLeap(mo, leap) ==
    IF mo = 4 \/ mo = 6 \/ mo = 9 \/ mo = 11 THEN 30
    ELSE IF mo = 2 THEN 28
    ELSE 31

DaysInMonth(mo, leap) ==
    IF mo = 4 \/ mo = 6 \/ mo = 9 \/ mo = 11 THEN 30
    ELSE IF mo = 2 THEN (IF leap THEN 29 ELSE 28)
    ELSE 31

\* n more invocations of the solar model for the pixel px
Invoked(calls, px, n) ==
    IF px \in DOMAIN calls THEN [calls EXCEPT ![px] = @ + n]
    ELSE [q \in (DOMAIN calls) \cup {px} |-> IF q = px THEN n ELSE calls[q]]

\* if (!inputDataset)
OpenFailedNever(dataset) == FALSE

OpenFailed(dataset) == dataset = "null"

\* if (err != CE_None)
FailedNever(err) == FALSE

Failed(err) == err # "CE_None"

(***************************************************************************)
(* DemProcessor::streamBinaryOutput                                        *)
(***************************************************************************)

\* GDALOpen, the raster size and the geotransform
StreamOpen ==
    /\ pc = "s_open"
    /\ \E dataset \in {"null", "dataset"} :
         /\ ioLog' = Append(ioLog, Call("open", 0, 0, dataset # "null"))
         /\ IF OpenFailed(dataset)
            THEN /\ stderr' = Append(stderr, "Error: Failed to open input file")
                 /\ success' = "false"
                 /\ pc' = "returned"
                 /\ UNCHANGED <<width, height, geoTransform>>
            ELSE /\ width' = inputFile.width
                 /\ height' = inputFile.height
                 /\ geoTransform' = inputFile.geoTransform
                 /\ pc' = "s_read"
                 /\ UNCHANGED <<stderr, success>>
    /\ UNCHANGED <<regionVars, unitVars, argVars, stdout, flushed, exitCode, demNodata, isLeap, daysInYear,
                   streamVars, rasterVars, calcCalls>>

\* GetRasterBand(1), the whole-grid RasterIO, and the locals set before the header.
\* With no band 1 the band pointer is null and the call through it is undefined:
\* the process dies, or the call comes back with an error.
StreamRead ==
    /\ pc = "s_read"
    /\ LET totalPixels == width * height
       IN  \E err \in {"CE_None", "CE_Failure", "crash"} :
             /\ inputFile.bands = 0 => err # "CE_None"
             /\ inputFile.bands > 0 => err # "crash"
             /\ ioLog' = IF err = "crash" THEN ioLog
                         ELSE Append(ioLog, Call("read", 0, 0, err = "CE_None"))
             /\ IF err = "crash"
                THEN /\ pc' = "crashed"
                     /\ UNCHANGED <<stderr, success, demNodata, isLeap, daysInYear, demData,
                                    sunriseBuffer, sunsetBuffer>>
                ELSE IF Failed(err)
                THEN /\ stderr' = Append(stderr, "Error: Failed to read DEM data")
                     /\ success' = "false"
                     /\ pc' = "returned"
                     /\ UNCHANGED <<demNodata, isLeap, daysInYear, demData,
                                    sunriseBuffer, sunsetBuffer>>
                ELSE /\ demData' = [i \in Tracked(totalPixels) |->
                                       Elevation(inputFile, i % width, i \div width)]
                     /\ demNodata' = inputFile.nodata
                     /\ isLeap' = IsLeap(year)
                     /\ daysInYear' = DaysInYear(IsLeap(year))
                     /\ sunriseBuffer' = [i \in Tracked(totalPixels) |-> UNINIT]
                     /\ sunsetBuffer' = [i \in Tracked(totalPixels) |-> UNINIT]
                     /\ pc' = "s_header"
                     /\ UNCHANGED <<stderr, success>>
    /\ UNCHANGED <<regionVars, unitVars, argVars, stdout, flushed, exitCode, width, height, geoTransform,
                   m, d, currentDayOfYear, rasterVars, calcCalls>>

\* the writes of the stream header, with sizeof("SOLAR") for the magic
HeaderWritesWithTerminator(w, h, days, gt) ==
    << Bin("magic", "SOLAR", 6),
       Bin("width", w, SizeofInt32),
       Bin("height", h, SizeofInt32),
       Bin("days", days, SizeofInt32),
       Bin("geoTransform", gt, 6 * SizeofDouble) >>

\* the writes of the stream header
HeaderWrites(w, h, days, gt) ==
    << Bin("magic", "SOLAR", 5),
       Bin("width", w, SizeofInt32),
       Bin("height", h, SizeofInt32),
       Bin("days", days, SizeofInt32),
       Bin("geoTransform", gt, 6 * SizeofDouble) >>

\* std::cout.flush() issued before the last write instead of after it
FlushedBeforeLastWrite(out) == Len(out) - 1

\* std::cout.flush(): everything written to the stream so far has been handed over
Flushed(out) == Len(out)

StreamHeader ==
    /\ pc = "s_header"
    /\ stdout' = stdout \o HeaderWrites(width, height, daysInYear, geoTransform)
    /\ flushed' = Flushed(stdout')
    /\ currentDayOfYear' = 0
    /\ m' = 1
    /\ d' = 1
    /\ pc' = "s_day"
    /\ UNCHANGED <<regionVars, unitVars, argVars, stderr, success, exitCode, localVars, demData, sunriseBuffer,
                   sunsetBuffer, rasterVars, ioLog, calcCalls>>

\* the masking test of the streaming pixel loop, without its isnan
StreamMaskedNoNaN(elevation, nodata) ==
    FEq(elevation, nodata) \/ FEq(elevation, 0)

\* the masking test of the streaming pixel loop
StreamMasked(elevation, nodata) ==
    IsNaN(elevation) \/ FEq(elevation, nodata) \/ FEq(elevation, 0)

\* static_cast<int16_t>(std::round(hours * 60.0)) for a finite, representable value
ToMinutes(hours) ==
    LET r == IF hours >= 0 THEN (hours + 30) \div 60 ELSE 0 - ((30 - hours) \div 60)
    IN  ((r + 32768) % 65536) - 32768

\* if (sunrise < 0) -1 else the minutes
StreamEntry(hours) == IF FLt(hours, 0) THEN -1 ELSE ToMinutes(hours)

\* one iteration of the parallel pixel loop of a day: what it stores at index i of the
\* sunrise buffer (isSunrise) or of the sunset buffer
StreamPixel(i, mo, dy, isSunrise) ==
    LET elevation == demData[i]
    IN  IF StreamMasked(elevation, demNodata) THEN -1
        ELSE LET py == i \div width
                 px == i % width
                 geo == pixelToGeo(geoTransform, px, py)
             IN  IF isSunrise
                 THEN StreamEntry(calculateSunrise(timezoneOffset, geo.lat, geo.lon,
                                                   elevation, year, mo, dy))
                 ELSE StreamEntry(calculateSunset(timezoneOffset, geo.lat, geo.lon,
                                                  elevation, year, mo, dy))

\* the writes of one day block, with the pixel count of the header comment
BlockWritesWithCount(day, rise, set, totalPixels) ==
    << Bin("dayOfYear", day, SizeofInt32),
       Bin("count", totalPixels, SizeofInt32),
       Bin("sunrise", rise, totalPixels * SizeofInt16),
       Bin("sunset", set, totalPixels * SizeofInt16) >>

\* the writes of one day block
BlockWrites(day, rise, set, totalPixels) ==
    << Bin("dayOfYear", day, SizeofInt32),
       Bin("sunrise", rise, totalPixels * SizeofInt16),
       Bin("sunset", set, totalPixels * SizeofInt16) >>

\* the calls of one pixel pass: two for each followed pixel that is not masked
RECURSIVE InvokedAll(_, _)
InvokedAll(calls, idx) ==
    IF idx = {} THEN calls
    ELSE LET i == CHOOSE j \in idx : TRUE
         IN  InvokedAll(IF StreamMasked(demData[i], demNodata) THEN calls
                        ELSE Invoked(calls, <<i % width, i \div width>>, 2),
                        idx \ {i})

\* one day of the day loop: the pixel pass, the block, the flush, the progress line
StreamDay ==
    /\ pc = "s_day"
    /\ m <= 12
    /\ LET totalPixels == width * height
       IN  /\ currentDayOfYear' = currentDayOfYear + 1
           /\ sunriseBuffer' = [i \in Tracked(totalPixels) |-> StreamPixel(i, m, d, TRUE)]
           /\ sunsetBuffer' = [i \in Tracked(totalPixels) |-> StreamPixel(i, m, d, FALSE)]
           /\ calcCalls' = InvokedAll(calcCalls, Tracked(totalPixels))
           /\ stdout' = stdout \o BlockWrites(currentDayOfYear', sunriseBuffer',
                                              sunsetBuffer', totalPixels)
           /\ flushed' = Flushed(stdout')
           /\ stderr' = IF currentDayOfYear' % 10 = 0
                        THEN Append(stderr, "Processed day") ELSE stderr
    /\ IF d < DaysInMonth(m, isLeap)
       THEN d' = d + 1 /\ m' = m
       ELSE d' = 1 /\ m' = m + 1
    /\ UNCHANGED <<regionVars, unitVars, argVars, success, exitCode, localVars, demData, pc, rasterVars, ioLog>>

\* the end of the day loop
StreamFinish ==
    /\ pc = "s_day"
    /\ m > 12
    /\ success' = "true"
    /\ pc' = "returned"
    /\ UNCHANGED <<regionVars, unitVars, argVars, ioVars, exitCode, localVars, streamVars, rasterVars, ioLog,
                   calcCalls>>

(***************************************************************************)
(* DemProcessor::createOutputDataset and DemProcessor::processDEM          *)
(***************************************************************************)

\* the description of band i, with the two names exchanged
BandDescriptionSwapped(i) ==
    LET day == ((i - 1) \div 2) + 1
        isSunrise == (i % 2 # 0)
    IN  <<"Day", day, IF isSunrise THEN "Sunset" ELSE "Sunrise">>

\* "Day " + std::to_string(day) + (isSunrise ? " Sunrise" : " Sunset")
BandDescription(i) ==
    LET day == ((i - 1) \div 2) + 1
        isSunrise == (i % 2 # 0)
    IN  <<"Day", day, IF isSunrise THEN "Sunrise" ELSE "Sunset">>

\* the dataset createOutputDataset returns: no cell written yet
createOutputDataset(w, h, bands, gt) ==
    [width |-> w, height |-> h, numBands |-> bands, geoTransform |-> gt,
     noData |-> [i \in 1..bands |-> NODATA_VALUE],
     description |-> [i \in 1..bands |-> BandDescription(i)],
     cells |-> <<>>]

\* the banner, GDALOpen, the raster size and the geotransform
ProcessOpen ==
    /\ pc = "r_open"
    /\ \E dataset \in {"null", "dataset"} :
         /\ ioLog' = Append(ioLog, Call("open", 0, 0, dataset # "null"))
         /\ IF OpenFailed(dataset)
            THEN /\ stdout' = Append(stdout, Text("Processing"))
                 /\ stderr' = Append(stderr, "Error: Failed to open input file")
                 /\ success' = "false"
                 /\ pc' = "returned"
                 /\ UNCHANGED <<width, height, geoTransform>>
            ELSE /\ stdout' = stdout \o <<Text("Processing"), Text("DEM dimensions")>>
                 /\ width' = inputFile.width
                 /\ height' = inputFile.height
                 /\ geoTransform' = inputFile.geoTransform
                 /\ pc' = "r_create"
                 /\ UNCHANGED <<stderr, success>>
    /\ flushed' = Len(stdout')
    /\ UNCHANGED <<regionVars, unitVars, argVars, exitCode, demNodata, isLeap, daysInYear, streamVars, rasterVars,
                   calcCalls>>

\* the number of days and of bands, and the call of createOutputDataset
ProcessCreate ==
    /\ pc = "r_create"
    /\ isLeap' = IsLeap(year)
    /\ daysInYear' = DaysInYear(IsLeap(year))
    /\ numBands' = DaysInYear(IsLeap(year)) * 2
    /\ stdout' = stdout \o <<Text("Days in year"), Text("Output bands")>>
    /\ flushed' = Len(stdout')
    /\ \E created \in {"no driver", "null", "dataset"} :
         /\ ioLog' = Append(ioLog, Call("create", 0, 0, created = "dataset"))
         /\ IF created = "no driver"
            THEN /\ stderr' = Append(stderr, "Error: GTiff driver not available")
                 /\ success' = "false"
                 /\ pc' = "returned"
                 /\ UNCHANGED outputDataset
            ELSE IF created = "null"
            THEN /\ stderr' = Append(stderr, "Error: Failed to create output dataset")
                 /\ success' = "false"
                 /\ pc' = "returned"
                 /\ UNCHANGED outputDataset
            ELSE /\ outputDataset' =
                        <<createOutputDataset(width, height, numBands', geoTransform)>>
                 /\ pc' = "r_band"
                 /\ UNCHANGED <<stderr, success>>
    /\ UNCHANGED <<regionVars, unitVars, argVars, exitCode, width, height, geoTransform, demNodata, streamVars,
                   demBlock, outputBlock, x, y, processedBlocks, calcCalls>>

\* blockXSize, blockYSize
BlockSize == 512

\* the two buffers, GetRasterBand(1) and its no-data value, the start of the tile loop.
\* With no band 1 the band pointer is null and GetNoDataValue through it is undefined:
\* the process dies, or the call returns whatever it finds.
ProcessBand ==
    /\ pc = "r_band"
    /\ demBlock' = <<>>
    /\ outputBlock' = <<>>
    /\ \E got \in {"value", "crash", "garbage"}, garbage \in {0, NODATA_IN} :
         /\ inputFile.bands > 0 => got = "value" /\ garbage = 0
         /\ inputFile.bands = 0 => got # "value"
         /\ IF got = "crash"
            THEN /\ pc' = "crashed"
                 /\ UNCHANGED <<demNodata, stdout, flushed, x, y, processedBlocks>>
            ELSE /\ demNodata' = IF got = "value" THEN inputFile.nodata ELSE garbage
                 /\ processedBlocks' = 0
                 /\ stdout' = Append(stdout, Text("Processing blocks..."))
                 /\ flushed' = Len(stdout')
                 /\ y' = 0
                 /\ x' = 0
                 /\ pc' = "r_tile"
    /\ UNCHANGED <<regionVars, unitVars, argVars, stderr, success, exitCode, width, height, geoTransform, isLeap,
                   daysInYear, streamVars, numBands, outputDataset, ioLog, calcCalls>>

\* a tile width that ignores the right edge of the grid
FullBlockX == BlockSize

currentBlockX == Min(BlockSize, width - x)
currentBlockY == Min(BlockSize, height - y)

\* the two for statements of the tile loop: x += blockXSize, then y += blockYSize
NextTile == IF x + BlockSize < width THEN <<x + BlockSize, y>> ELSE <<0, y + BlockSize>>

\* the RasterIO read of the tile at (x, y); a failed read goes on with the next tile
TileRead ==
    /\ pc = "r_tile"
    /\ y < height
    /\ \E err \in {"CE_None", "CE_Failure", "crash"} :
         /\ inputFile.bands = 0 => err # "CE_None"
         /\ inputFile.bands > 0 => err # "crash"
         /\ ioLog' = IF err = "crash" THEN ioLog
                     ELSE Append(ioLog, Call("read", x, y, err = "CE_None"))
         /\ IF err = "crash"
            THEN /\ pc' = "crashed"
                 /\ UNCHANGED <<stderr, demBlock, x, y>>
            ELSE IF Failed(err)
            THEN /\ stderr' = Append(stderr, "Error reading DEM block")
                 /\ x' = NextTile[1]
                 /\ y' = NextTile[2]
                 /\ UNCHANGED <<pc, demBlock>>
            ELSE /\ demBlock' = [i \in Tracked(currentBlockX * currentBlockY) |->
                                    Elevation(inputFile, x + (i % currentBlockX),
                                              y + (i \div currentBlockX))]
                 /\ pc' = "r_pixels"
                 /\ UNCHANGED <<stderr, x, y>>
    /\ UNCHANGED <<regionVars, unitVars, argVars, stdout, flushed, success, exitCode, localVars, streamVars,
                   numBands, outputDataset, outputBlock, processedBlocks, calcCalls>>

\* the masking test of the streaming loop used in the tile pixel loop
RasterMaskedWithZero(elevation, nodata) ==
    IsNaN(elevation) \/ FEq(elevation, nodata) \/ FEq(elevation, 0)

\* the masking test of the tile pixel loop
RasterMasked(elevation, nodata) == IsNaN(elevation) \/ FEq(elevation, nodata)

\* the band index taken from the day of the year as it is
SunriseBandIdxFromOne(dayOfYear) == dayOfYear * 2

\* int sunriseBandIdx = (currentDayOfYear - 1) * 2
SunriseBandIdx(dayOfYear) == (dayOfYear - 1) * 2

\* The output buffer is band sequential: RasterIO takes the entries k * n .. k * n + n - 1
\* as the window of the k-th band of its list, n being the pixel count of the window.
\* The model keeps the buffer by plane and offset, for the offsets of the followed pixels:
\* outputBlock.entry[k + 1][o] is the buffer entry k * n + o.
Entry(idx, n) == [plane |-> idx \div n, offset |-> idx % n]

\* the entry idx is one of pixel i of a tile of n pixels: b * n + i with 0 <= b < numBands
OwnEntry(idx, i, n) ==
    idx >= 0 /\ Entry(idx, n).offset = i /\ Entry(idx, n).plane < numBands

\* an index that puts the bands of a pixel next to each other
BufferIdxByPixel(band, n, i) == band + i

\* int sunriseIdx = sunriseBandIdx * (currentBlockX * currentBlockY) + i, and the same
\* for sunsetIdx and for b * (currentBlockX * currentBlockY) + i
BufferIdx(band, n, i) == band * n + i

\* outputBlock[idx] = value, seen from the entries of pixel px.i: column[k + 1] is the
\* buffer entry k * n + px.i
Store(column, idx, px, value) ==
    IF OwnEntry(idx, px.i, px.n) THEN [column EXCEPT ![Entry(idx, px.n).plane + 1] = value]
    ELSE column

\* The body of the day loop for one unmasked pixel, after the two calls of the solar
\* model. px holds the pixel: its index i in the tile, the tile's pixel count n, its
\* elevation and its coordinates. acc holds the pixel's entries of the output buffer,
\* whether a store fell outside them, currentDayOfYear and the number of calls of the
\* solar model. The results are converted to float: at the model's resolution of one
\* second that changes no value in [-9999, 24) hours, and NaN stays NaN.
DayBody(acc, px, dayOfYear, sunrise, sunset) ==
    LET sunriseBandIdx == SunriseBandIdx(dayOfYear)
        sunsetBandIdx == sunriseBandIdx + 1
        sunriseIdx == BufferIdx(sunriseBandIdx, px.n, px.i)
        sunsetIdx == BufferIdx(sunsetBandIdx, px.n, px.i)
    IN  [column |-> Store(Store(acc.column, sunriseIdx, px, sunrise), sunsetIdx, px, sunset),
         stray |-> \/ acc.stray
                   \/ ~OwnEntry(sunriseIdx, px.i, px.n)
                   \/ ~OwnEntry(sunsetIdx, px.i, px.n),
         currentDayOfYear |-> dayOfYear,
         calls |-> acc.calls + 2]

\* The iterations the two nested loops (for m, for d) make, in order: the month and the
\* day of each.
RECURSIVE Dates(_, _)
Dates(mo, leap) ==
    IF mo > 12 THEN <<>>
    ELSE [dy \in 1..DaysInMonth(mo, leap) |-> <<mo, dy>>] \o Dates(mo + 1, leap)

\* what the two calls of the solar model return in each of these iterations, for the
\* pixel px
SolarTimes(px, dates) ==
    [k \in 1..Len(dates) |->
        [sunrise |-> calculateSunrise(timezoneOffset, px.lat, px.lon, px.elevation,
                                      year, dates[k][1], dates[k][2]),
         sunset |-> calculateSunset(timezoneOffset, px.lat, px.lon, px.elevation,
                                    year, dates[k][1], dates[k][2])]] \o <<>>

\* The iterations from..to of the two nested loops for one unmasked pixel, in order.
\* One iteration is the increment of currentDayOfYear, the two calls of the solar model
\* (times holds what they return) and the body; an interval of several iterations is
\* its first half, then (DayNext) its second half.
RECURSIVE DayLoop(_, _, _, _, _)
RECURSIVE DayNext(_, _, _, _, _)
DayLoop(acc, px, times, from, to) ==
    IF from = to
    THEN DayBody(acc, px, acc.currentDayOfYear + 1, times[from].sunrise, times[from].sunset)
    ELSE DayNext(DayLoop(acc, px, times, from, (from + to) \div 2),
                 px, times, ((from + to) \div 2) + 1, to)

DayNext(done, px, times, from, to) ==
    IF done.calls > 0 THEN DayLoop(done, px, times, from, to) ELSE done

\* the month loop and the day loop of one unmasked pixel
MonthLoop(acc, px, times) == DayLoop(acc, px, times, 1, Len(times))

\* for (int b = 0; b < numBands; ++b) outputBlock[b * n + i] = NODATA_VALUE
NoDataLoop(column, i, n) ==
    [k \in 1..Len(column) |->
        IF OwnEntry(BufferIdx(k - 1, n, i), i, n) THEN NODATA_VALUE ELSE column[k]]

\* the entries of pixel i in the followed part of the output buffer
Column(entry, i) == [k \in 1..numBands |-> entry[k][i]] \o <<>>

\* the followed part of the output buffer with the entries of pixel i replaced
PutColumn(entry, i, column) ==
    [k \in 1..numBands |-> [entry[k] EXCEPT ![i] = column[k]]] \o <<>>

\* what the iteration of a masked pixel leaves
MaskedPixel(acc, i, done) ==
    [entry |-> PutColumn(acc.entry, i, done), stray |-> acc.stray, calls |-> acc.calls]

\* what the iteration of an unmasked pixel at (globalX, globalY) leaves
UnmaskedPixel(acc, i, globalX, globalY, done) ==
    [entry |-> PutColumn(acc.entry, i, done.column),
     stray |-> acc.stray \/ done.stray,
     calls |-> Invoked(acc.calls, <<globalX, globalY>>, done.calls)]

\* the iteration of the unmasked pixel px
PixelDays(acc, px, globalX, globalY) ==
    UnmaskedPixel(acc, px.i, globalX, globalY,
                  MonthLoop([column |-> Column(acc.entry, px.i), stray |-> FALSE,
                             currentDayOfYear |-> 0, calls |-> 0],
                            px, SolarTimes(px, Dates(1, isLeap))))

\* one iteration of the parallel pixel loop of a tile; acc holds the followed entries of
\* the output buffer, whether a store fell outside the entries of its pixel, and the
\* calls of the solar model
TilePixel(acc, i, n) ==
    LET localY == i \div currentBlockX
        localX == i % currentBlockX
        globalX == x + localX
        globalY == y + localY
        elevation == demBlock[i]
    IN  IF RasterMasked(elevation, demNodata)
        THEN MaskedPixel(acc, i, NoDataLoop(Column(acc.entry, i), i, n))
        ELSE PixelDays(acc, [i |-> i, n |-> n, elevation |-> elevation,
                             lat |-> pixelToGeo(geoTransform, globalX, globalY).lat,
                             lon |-> pixelToGeo(geoTransform, globalX, globalY).lon],
                       globalX, globalY)

\* the parallel pixel loop over the followed pixels, lowest index first: the iterations
\* write different entries, so their order does not matter. PixelLoop is the test and
\* the iteration, PixelNext the step to the next pixel.
RECURSIVE PixelLoop(_, _, _)
RECURSIVE PixelNext(_, _, _)
PixelLoop(acc, todo, n) ==
    IF todo = {} THEN acc
    ELSE PixelNext(TilePixel(acc, CHOOSE j \in todo : \A k \in todo : j <= k, n),
                   todo \ {CHOOSE j \in todo : \A k \in todo : j <= k}, n)

PixelNext(done, todo, n) ==
    IF done.stray \in BOOLEAN THEN PixelLoop(done, todo, n) ELSE done

\* The entries of the output buffer that the model follows during a tile of n pixels:
\* those of the followed pixels. A tile of another size puts them elsewhere in the
\* buffer, and what they hold then was not followed.
Follow(block, n) ==
    IF block # <<>> /\ block.n = n THEN block.entry
    ELSE [k \in 1..numBands |-> [o \in Tracked(n) |-> UNINIT]] \o <<>>

\* the pixel pass of the tile at (x, y)
TilePass ==
    /\ pc = "r_pixels"
    /\ \E n \in {currentBlockX * currentBlockY} :
         \E done \in {PixelLoop([entry |-> Follow(outputBlock, n), stray |-> FALSE,
                                 calls |-> calcCalls], Tracked(n), n)} :
           /\ outputBlock' = [n |-> n, entry |-> done.entry, stray |-> done.stray]
           /\ calcCalls' = done.calls
    /\ pc' = "r_write"
    /\ UNCHANGED <<regionVars, unitVars, argVars, ioVars, success, exitCode, localVars, streamVars, numBands,
                   outputDataset, demBlock, x, y, processedBlocks, ioLog>>

\* the multi-band RasterIO write of the tile at (x, y), the progress line and the step
\* to the next tile; a failed write is only reported
TileWrite ==
    /\ pc = "r_write"
    /\ LET n == currentBlockX * currentBlockY
           window == {<<x + (i % currentBlockX), y + (i \div currentBlockX)>> : i \in Tracked(n)}
           local(p) == (p[2] - y) * currentBlockX + (p[1] - x)
           cells == outputDataset[1].cells
       IN  \E err \in {"CE_None", "CE_Failure"} :
             /\ ioLog' = Append(ioLog, Call("write", x, y, err = "CE_None"))
             /\ IF Failed(err)
                THEN /\ stderr' = Append(stderr, "Error writing output block")
                     /\ UNCHANGED outputDataset
                ELSE /\ outputDataset' =
                          <<[outputDataset[1] EXCEPT !.cells =
                               [p \in (DOMAIN cells) \cup window |->
                                   IF p \in window
                                   THEN [b \in 1..numBands |->
                                            outputBlock.entry[b][local(p)]]
                                   ELSE cells[p]]]>>
                     /\ UNCHANGED stderr
    /\ processedBlocks' = processedBlocks + 1
    /\ stdout' = Append(stdout, Text("Processed block"))
    /\ flushed' = Len(stdout')
    /\ x' = NextTile[1]
    /\ y' = NextTile[2]
    /\ pc' = "r_tile"
    /\ UNCHANGED <<regionVars, unitVars, argVars, success, exitCode, localVars, streamVars, numBands, demBlock,
                   outputBlock, calcCalls>>

\* the end of the tile loop: the buffers are freed, the datasets closed
ProcessFinish ==
    /\ pc = "r_tile"
    /\ y >= height
    /\ stdout' = stdout \o <<Text("Writing metadata and closing..."), Text("Output saved")>>
    /\ flushed' = Len(stdout')
    /\ success' = "true"
    /\ pc' = "returned"
    /\ UNCHANGED <<regionVars, unitVars, argVars, stderr, exitCode, localVars, streamVars, rasterVars, ioLog,
                   calcCalls>>

(***************************************************************************)
(* main, after the call                                                    *)
(***************************************************************************)

MainExit ==
    /\ pc = "returned"
    /\ IF success = "true"
       THEN /\ exitCode' = 0
            /\ IF streamMode THEN UNCHANGED <<stdout, flushed>>
               ELSE /\ stdout' = Append(stdout, Text("Processing completed successfully!"))
                    /\ flushed' = Len(stdout')
            /\ UNCHANGED stderr
       ELSE /\ exitCode' = 1
            /\ stderr' = Append(stderr, "Processing failed!")
            /\ UNCHANGED <<stdout, flushed>>
    /\ pc' = "exit"
    /\ UNCHANGED <<regionVars, unitVars, argVars, success, localVars, streamVars, rasterVars, ioLog, calcCalls>>

StreamNext ==
    \/ Construct
    \/ MainStream
    \/ StreamOpen
    \/ StreamRead
    \/ StreamHeader
    \/ StreamDay
    \/ StreamFinish
    \/ MainExit

RasterNext ==
    \/ Construct
    \/ MainRaster
    \/ ProcessOpen
    \/ ProcessCreate
    \/ ProcessBand
    \/ TileRead
    \/ TilePass
    \/ TileWrite
    \/ ProcessFinish
    \/ MainExit

Next ==
    \/ Construct
    \/ MainStream
    \/ MainRaster
    \/ StreamOpen
    \/ StreamRead
    \/ StreamHeader
    \/ StreamDay
    \/ StreamFinish
    \/ ProcessOpen
    \/ ProcessCreate
    \/ ProcessBand
    \/ TileRead
    \/ TilePass
    \/ TileWrite
    \/ ProcessFinish
    \/ MainExit

InitStream == Init /\ streamMode

InitRaster == Init /\ ~streamMode

Spec == Init /\ [][Next]_vars

SpecStream == InitStream /\ [][StreamNext]_vars

SpecRaster == InitRaster /\ [][RasterNext]_vars


(***************************************************************************)
(* The parallel regions, thread by thread                                  *)
(*                                                                         *)
(* StreamDay and TilePass above take a whole "#pragma omp parallel for"    *)
(* loop as one step.  The actions below take the same two loops one        *)
(* iteration and one store at a time: a team of worker threads, the        *)
(* iterations not yet handed out, and the stores each iteration has done.  *)
(* A build without OpenMP runs the loop as written: one thread, increasing *)
(* i.  With OpenMP any idle thread may get any iteration that is left,     *)
(* which covers schedule(static) and every other assignment.               *)
(***************************************************************************)

\* the largest team of worker threads, and the days a streaming run is followed for
MaxThreads == 2
MaxPassDays == 2

\* The runs followed thread by thread: grids holding a valid elevation, the no-data
\* value, NaN and zero among their followed pixels, and a grid of two tiles.
PassRuns ==
    {<<2024, File(<<2, 2>>, Alps, rot, 1), build>> : rot \in {0, 1}, build \in BOOLEAN}
    \cup {<<2024, File(<<513, 1>>, Alps, 0, 1), TRUE>>}

InitPass ==
    /\ streamMode \in BOOLEAN
    /\ \E run \in PassRuns : year = run[1] /\ inputFile = run[2] /\ openmp = run[3]
    /\ timezoneOffset = 1 * HOUR
    /\ InitLocals

\* a worker thread that is not inside an iteration
Idle == [i |-> -1, step |-> 0]

\* the team at the start of a parallel region: n threads, 1 without OpenMP
Teams == {[t \in 1..n |-> Idle] : n \in 1..(IF openmp THEN MaxThreads ELSE 1)}

\* the iterations one of which is handed out next
Handout(left) ==
    IF openmp \/ left = {} THEN left ELSE {CHOOSE i \in left : \A j \in left : i <= j}

\* a store to every buffer index, whatever the pixel, lands on the first entry
StoreAtFirst(buffer, idx, value) == [buffer EXCEPT ![0] = value]

\* buffer[idx] = value
StoreAt(buffer, idx, value) == [buffer EXCEPT ![idx] = value]

\* the stores of iteration i added to the log, which holds for each iteration of the
\* region the buffer entries it stored to
Logged(log, i, stores) ==
    [q \in (DOMAIN log) \cup {i} |->
        IF q = i THEN stores \cup (IF i \in DOMAIN log THEN log[i] ELSE {}) ELSE log[q]]

\* a region that does not wait for its threads
NoBarrier(workers, left) == left = {}

\* the implicit barrier at the end of "omp parallel for": every iteration was handed
\* out and every thread has left its iteration
Barrier(workers, left) ==
    left = {} /\ \A t \in DOMAIN workers : workers[t] = Idle

\* streamBinaryOutput: the head of the day loop body, up to the parallel region
DayFork ==
    /\ pc = "s_day"
    /\ m <= 12
    /\ currentDayOfYear < MaxPassDays
    /\ currentDayOfYear' = currentDayOfYear + 1
    /\ team' \in Teams
    /\ pending' = Tracked(width * height)
    /\ writeLog' = <<>>
    /\ pc' = "s_pass"
    /\ UNCHANGED <<unitVars, argVars, ioVars, success, exitCode, localVars, demData,
                   sunriseBuffer, sunsetBuffer, m, d, rasterVars, ioLog, calcCalls>>

\* one iteration of the streaming pixel loop, up to its store to sunriseBuffer[i]
DayWorkerStart(t) ==
    /\ pc = "s_pass"
    /\ t \in DOMAIN team
    /\ team[t] = Idle
    /\ \E i \in Handout(pending) :
         /\ pending' = pending \ {i}
         /\ team' = [team EXCEPT ![t] = [i |-> i, step |-> 1]]
         /\ sunriseBuffer' = StoreAt(sunriseBuffer, i, StreamPixel(i, m, d, TRUE))
         /\ writeLog' = Logged(writeLog, i, {<<"sunriseBuffer", i>>})
         /\ calcCalls' = IF StreamMasked(demData[i], demNodata) THEN calcCalls
                         ELSE Invoked(calcCalls, <<i % width, i \div width>>, 2)
    /\ UNCHANGED <<unitVars, argVars, ioVars, success, exitCode, localVars, demData,
                   sunsetBuffer, m, d, currentDayOfYear, rasterVars, ioLog, pc>>

\* the rest of the iteration: its store to sunsetBuffer[i]
DayWorkerFinish(t) ==
    /\ pc = "s_pass"
    /\ t \in DOMAIN team
    /\ team[t] # Idle
    /\ \E i \in {team[t].i} :
         /\ sunsetBuffer' = StoreAt(sunsetBuffer, i, StreamPixel(i, m, d, FALSE))
         /\ writeLog' = Logged(writeLog, i, {<<"sunsetBuffer", i>>})
    /\ team' = [team EXCEPT ![t] = Idle]
    /\ UNCHANGED <<unitVars, argVars, ioVars, success, exitCode, localVars, demData,
                   sunriseBuffer, m, d, currentDayOfYear, rasterVars, ioLog, pc, pending,
                   calcCalls>>

\* the end of the parallel region and the rest of the day loop body: the block, the
\* flush, the progress line, the step to the next day
DayJoin ==
    /\ pc = "s_pass"
    /\ Barrier(team, pending)
    /\ stdout' = stdout \o BlockWrites(currentDayOfYear, sunriseBuffer, sunsetBuffer,
                                       width * height)
    /\ flushed' = Flushed(stdout')
    /\ stderr' = IF currentDayOfYear % 10 = 0
                 THEN Append(stderr, "Processed day") ELSE stderr
    /\ IF d < DaysInMonth(m, isLeap)
       THEN d' = d + 1 /\ m' = m
       ELSE d' = 1 /\ m' = m + 1
    /\ team' = <<>>
    /\ pc' = "s_day"
    /\ UNCHANGED <<unitVars, argVars, success, exitCode, localVars, demData, sunriseBuffer,
                   sunsetBuffer, currentDayOfYear, rasterVars, ioLog, pending, writeLog,
                   calcCalls>>

\* the indices of outputBlock that iteration i of a tile of n pixels stores to
PixelStores(i, n) ==
    IF RasterMasked(demBlock[i], demNodata)
    THEN {<<"outputBlock", BufferIdx(b, n, i)>> : b \in 0..(numBands - 1)}
    ELSE UNION {{<<"outputBlock", BufferIdx(SunriseBandIdx(k), n, i)>>,
                 <<"outputBlock", BufferIdx(SunriseBandIdx(k) + 1, n, i)>>} :
                    k \in 1..Len(Dates(1, isLeap))}

\* processDEM: the start of the parallel region of the tile at (x, y)
TileFork ==
    /\ pc = "r_pixels"
    /\ team' \in Teams
    /\ pending' = Tracked(currentBlockX * currentBlockY)
    /\ writeLog' = <<>>
    /\ outputBlock' = [n |-> currentBlockX * currentBlockY,
                       entry |-> Follow(outputBlock, currentBlockX * currentBlockY),
                       stray |-> FALSE]
    /\ pc' = "r_pass"
    /\ UNCHANGED <<unitVars, argVars, ioVars, success, exitCode, localVars, streamVars,
                   numBands, outputDataset, demBlock, x, y, processedBlocks, ioLog,
                   calcCalls>>

\* one iteration of the tile pixel loop, with all its stores, on any thread of the team
TileWorker ==
    /\ pc = "r_pass"
    /\ \E i \in Handout(pending) :
         \E done \in {TilePixel([entry |-> outputBlock.entry, stray |-> outputBlock.stray,
                                 calls |-> calcCalls], i, outputBlock.n)} :
           /\ outputBlock' = [n |-> outputBlock.n, entry |-> done.entry,
                              stray |-> done.stray]
           /\ calcCalls' = done.calls
           /\ writeLog' = Logged(writeLog, i, PixelStores(i, outputBlock.n))
           /\ pending' = pending \ {i}
    /\ \E t \in DOMAIN team : team[t] = Idle
    /\ UNCHANGED <<unitVars, argVars, ioVars, success, exitCode, localVars, streamVars,
                   numBands, outputDataset, demBlock, x, y, processedBlocks, ioLog, pc,
                   team>>

\* the end of the parallel region of the tile
TileJoin ==
    /\ pc = "r_pass"
    /\ Barrier(team, pending)
    /\ team' = <<>>
    /\ pc' = "r_write"
    /\ UNCHANGED <<unitVars, argVars, ioVars, success, exitCode, localVars, streamVars,
                   rasterVars, ioLog, pending, writeLog, calcCalls>>

PassNext ==
    \/ Construct
    \/ MainStream
    \/ MainRaster
    \/ StreamOpen
    \/ StreamRead
    \/ StreamHeader
    \/ DayFork
    \/ \E t \in 1..MaxThreads : DayWorkerStart(t)
    \/ \E t \in 1..MaxThreads : DayWorkerFinish(t)
    \/ DayJoin
    \/ ProcessOpen
    \/ ProcessCreate
    \/ ProcessBand
    \/ TileRead
    \/ TileFork
    \/ TileWorker
    \/ TileJoin
    \/ TileWrite
    \/ ProcessFinish
    \/ MainExit

SpecPass == InitPass /\ [][PassNext]_vars
(***************************************************************************)
(* SolarCalculator used directly: one calculator, one location and date,   *)
(* and its two entry points                                                *)
(***************************************************************************)

\* the arguments of the calls: degrees in milli-degrees, metres, seconds. The latitudes
\* stop at 85 degrees, up to where the scaled product of the two tangents fits an int;
\* at 67.78 degrees the sun of 1 January 1900 touches the horizon at noon (cosHA = 1).
SolarLatitudes ==
    {0 - 85 * DEG, 0 - 70 * DEG, 0 - 45 * DEG, 0, 45 * DEG, 66 * DEG, 67780, 69 * DEG,
     80 * DEG, 85 * DEG}
SolarLongitudes == {0 - 180 * DEG, 0 - 90 * DEG, 0, 6 * DEG, 180 * DEG}
SolarElevations == {0 - 5, 0, 250, 4000}
SolarDates ==
    {<<2024, 3, 20>>, <<2024, 6, 21>>, <<2024, 12, 21>>, <<2023, 9, 23>>, <<1900, 1, 1>>,
     <<2000, 2, 29>>}

\* SolarCalculator(timezoneOffset): any double; main passes what std::atof returned
SolarOffsets ==
    {0 - Huge, 0 - 30 * HOUR, 0 - 12 * HOUR, 0, 1 * HOUR, (11 * HOUR) \div 2, 14 * HOUR,
     30 * HOUR, Huge}

\* the value of a result before its call
NotCalled == <<>>

InitSolar ==
    /\ InitProgram
    /\ visited = <<>>
    /\ openmp = FALSE /\ streamMode = FALSE /\ inputFile = DefaultFile
    /\ timezoneOffset \in SolarOffsets
    /\ \E date \in SolarDates, lat \in SolarLatitudes, lon \in SolarLongitudes,
          elev \in SolarElevations :
          /\ year = date[1]
          /\ probe = [latitude |-> lat, longitude |-> lon, elevation |-> elev,
                      month |-> date[2], day |-> date[3],
                      sunrise |-> NotCalled, sunset |-> NotCalled]

programVars == <<pc, argVars, ioVars, success, exitCode, localVars, streamVars, rasterVars,
                 ioLog, calcCalls, regionVars>>

\* calc.calculateSunrise(latitude, longitude, elevation, year, month, day)
SunriseCall ==
    /\ probe # <<>>
    /\ probe.sunrise = NotCalled
    /\ probe' = [probe EXCEPT !.sunrise =
                    <<calculateSunrise(timezoneOffset, probe.latitude, probe.longitude,
                                       probe.elevation, year, probe.month, probe.day)>>]
    /\ UNCHANGED <<programVars, visited>>

\* calc.calculateSunset(latitude, longitude, elevation, year, month, day)
SunsetCall ==
    /\ probe # <<>>
    /\ probe.sunset = NotCalled
    /\ probe' = [probe EXCEPT !.sunset =
                    <<calculateSunset(timezoneOffset, probe.latitude, probe.longitude,
                                      probe.elevation, year, probe.month, probe.day)>>]
    /\ UNCHANGED <<programVars, visited>>

SolarNext == SunriseCall \/ SunsetCall

SpecSolar == InitSolar /\ [][SolarNext]_vars

(***************************************************************************)
(* The tile loop of processDEM followed alone: the tiles it visits and the *)
(* global pixels its local indices stand for                               *)
(***************************************************************************)

\* raster sizes below, at and above one, two and three tiles
TileSizes == {1, 2, 511, 512, 513, 1023, 1024, 1025, 1537}

TileFiles == {File(<<w, h>>, Alps, 0, 1) : w \in TileSizes, h \in TileSizes}

\* local indices of a tile of tw * th pixels: the first and the last of the first two
\* rows and of the last row
Sampled(tw, th) ==
    {i \in {0, tw - 1, tw, 2 * tw - 1, tw * (th - 1), tw * th - 1} : i < tw * th}

InitTiles ==
    /\ InitProgram
    /\ probe = <<>> /\ visited = <<>>
    /\ openmp = TRUE /\ streamMode = FALSE /\ year = 2024 /\ timezoneOffset = 1 * HOUR
    /\ inputFile \in TileFiles

\* GetRasterXSize, GetRasterYSize, and the start of the tile loop
GridSize ==
    /\ pc = "main"
    /\ width' = inputFile.width
    /\ height' = inputFile.height
    /\ x' = 0 /\ y' = 0
    /\ pc' = "r_tile"
    /\ UNCHANGED <<unitVars, regionVars, argVars, ioVars, success, exitCode, geoTransform,
                   demNodata, isLeap, daysInYear, streamVars, numBands, outputDataset,
                   demBlock, outputBlock, processedBlocks, ioLog, calcCalls>>

\* one iteration of the tile loop: the window that is read and written, the global
\* pixel (globalX, globalY) of the sampled local indices, the step to the next tile
TileVisit ==
    /\ pc = "r_tile"
    /\ y < height
    /\ visited' = Append(visited,
                         [x |-> x, y |-> y, w |-> currentBlockX, h |-> currentBlockY,
                          global |-> [i \in Sampled(currentBlockX, currentBlockY) |->
                                         <<x + (i % currentBlockX),
                                           y + (i \div currentBlockX)>>]])
    /\ x' = NextTile[1]
    /\ y' = NextTile[2]
    /\ UNCHANGED <<probe, regionVars, argVars, ioVars, success, exitCode, localVars,
                   streamVars, numBands, outputDataset, demBlock, outputBlock,
                   processedBlocks, ioLog, calcCalls, pc>>

TilesNext == GridSize \/ TileVisit

SpecTiles == InitTiles /\ [][TilesNext]_vars

(***************************************************************************)
(* Streaming mode on a raster where the sun sets just before local         *)
(* midnight                                                                *)
(***************************************************************************)

\* a GDAL geotransform (milli-degrees) in the Atlantic, 48.3 degrees west at 45 degrees
\* north: with the default offset of one hour the sun sets in the last half minute of
\* the local day on days around 21 June
MidAtlantic == <<0 - 48300, 1, 0, 45000, 0, -1>>

MidnightRuns ==
    {<<2024, File(<<2, 2>>, MidAtlantic, rot, 1), build>> :
        rot \in 0..(Len(ElevCycle) - 1), build \in BOOLEAN}

InitMidnight ==
    /\ streamMode = TRUE
    /\ \E run \in MidnightRuns : year = run[1] /\ inputFile = run[2] /\ openmp = run[3]
    /\ timezoneOffset = 1 * HOUR
    /\ InitLocals

SpecMidnight == InitMidnight /\ [][StreamNext]_vars

(***************************************************************************)
(* Properties                                                              *)
(***************************************************************************)

\* what was written to stdout with write(), in order
StreamData == SelectSeq(stdout, LAMBDA r : r.kind # "text")

RECURSIVE BytesUpTo(_, _, _)
BytesUpTo(data, from, to) ==
    IF from > to THEN 0 ELSE data[from].bytes + BytesUpTo(data, from + 1, to)

\* the bytes that follow the day index at position k, up to the next day index
RECURSIVE BytesAfterIndex(_, _)
BytesAfterIndex(data, k) ==
    IF k + 1 > Len(data) \/ data[k + 1].kind = "dayOfYear" THEN 0
    ELSE data[k + 1].bytes + BytesAfterIndex(data, k + 1)

\* the calls of one kind into GDAL, in order
Calls(op) == SelectSeq(ioLog, LAMBDA c : c.op = op)

\* C1: in streaming mode the day indices written so far are 1, 2, 3, ... in this order,
\* and a run that completed wrote exactly daysInYear of them.
C1_BlocksInDayOrder ==
    streamMode =>
        LET days == SelectSeq(stdout, LAMBDA r : r.kind = "dayOfYear")
        IN  /\ \A n \in 1..Len(days) : days[n].val = n
            /\ success = "true" => Len(days) = daysInYear /\ daysInYear \in {365, 366}

C1_LeapYearCompleted ==
    /\ streamMode /\ success = "true" /\ isLeap
    /\ Len(SelectSeq(stdout, LAMBDA r : r.kind = "dayOfYear")) = 366

C4_StdoutOnlyData ==
    streamMode => \A k \in 1..Len(stdout) : stdout[k].kind # "text"

\* C5: daysInYear is 366 exactly when the year is divisible by 4 and not by 100, or by 400
\* (2024 and 2000: 366; 2023 and 1900: 365) in both modes, the stream header announces that
\* number, and the output dataset of raster mode has 2 * daysInYear bands.
C5_LeapRule ==
    LET leap == (year % 4 = 0 /\ year % 100 # 0) \/ year % 400 = 0
        days == IF leap THEN 366 ELSE 365
    IN  /\ year \in {2024, 2000} => leap
        /\ year \in {2023, 1900} => ~leap
        /\ daysInYear # 0 => daysInYear = days /\ isLeap = leap
        /\ pc \in {"s_header", "s_day", "r_band", "r_tile", "r_pixels", "r_write"}
               => daysInYear = days
        /\ \A k \in 1..Len(stdout) : stdout[k].kind = "days" => stdout[k].val = days
        /\ outputDataset # <<>> =>
               /\ numBands = 2 * days
               /\ outputDataset[1].numBands = 2 * days
               /\ DOMAIN outputDataset[1].description = 1..(2 * days)

C5_CenturyLeapYearRaster ==
    /\ ~streamMode /\ year = 2000 /\ outputDataset # <<>>
    /\ outputDataset[1].numBands = 732

\* the pixel of the input raster is masked: its elevation is NaN or the no-data value
MaskedInFile(px, py) ==
    LET elevation == Elevation(inputFile, px, py)
    IN  elevation = NaN \/ elevation = inputFile.nodata

\* C6: the solar model is never invoked for a masked pixel; in streaming mode the sunrise
\* and the sunset entry of a masked pixel are -1 in every block, and a completed run wrote
\* daysInYear sunrise and daysInYear sunset arrays; in raster mode a written masked pixel
\* holds -9999 in all its 2 * daysInYear bands.
C6_MaskedPixels ==
    /\ \A p \in DOMAIN calcCalls : ~MaskedInFile(p[1], p[2])
    /\ streamMode =>
        /\ \A k \in 1..Len(stdout) :
               stdout[k].kind \in {"sunrise", "sunset"} =>
                   \A i \in DOMAIN stdout[k].val :
                       MaskedInFile(i % inputFile.width, i \div inputFile.width)
                           => stdout[k].val[i] = -1
        /\ success = "true" =>
               /\ Len(SelectSeq(stdout, LAMBDA r : r.kind = "sunrise")) = daysInYear
               /\ Len(SelectSeq(stdout, LAMBDA r : r.kind = "sunset")) = daysInYear
    /\ (~streamMode /\ outputDataset # <<>>) =>
           \A p \in DOMAIN outputDataset[1].cells :
               MaskedInFile(p[1], p[2]) =>
                   /\ DOMAIN outputDataset[1].cells[p] = 1..(2 * daysInYear)
                   /\ \A b \in 1..(2 * daysInYear) :
                          outputDataset[1].cells[p][b] = -9999 * HOUR

C6_MaskedPixelWritten ==
    /\ ~streamMode /\ outputDataset # <<>>
    /\ \E p \in DOMAIN outputDataset[1].cells :
           /\ Elevation(inputFile, p[1], p[2]) = NaN
           /\ outputDataset[1].cells[p][1] = -9999 * HOUR
    /\ \E p \in DOMAIN outputDataset[1].cells :
           /\ Elevation(inputFile, p[1], p[2]) = inputFile.nodata
           /\ outputDataset[1].cells[p][2 * daysInYear] = -9999 * HOUR

\* the days before each month
DaysBefore(leap) ==
    IF leap THEN <<0, 31, 60, 91, 121, 152, 182, 213, 244, 274, 305, 335, 366>>
    ELSE <<0, 31, 59, 90, 120, 151, 181, 212, 243, 273, 304, 334, 365>>

\* the calendar month of day k of the year
MonthOfDay(k, leap) ==
    CHOOSE mo \in 1..12 : DaysBefore(leap)[mo] < k /\ k <= DaysBefore(leap)[mo + 1]

\* the tile that was written by the step that led to this state
LastWritten ==
    IF pc = "r_tile" /\ ioLog # <<>> /\ ioLog[Len(ioLog)].op = "write" /\ ioLog[Len(ioLog)].ok
    THEN {<<ioLog[Len(ioLog)].x, ioLog[Len(ioLog)].y>>}
    ELSE {}

\* C7: in raster mode band N of the output is described as day (N + 1) div 2, sunrise for
\* odd N and sunset for even N, and for every unmasked pixel of a tile just written and
\* every day k of the year, band 2k - 1 holds the sunrise and band 2k the sunset that the
\* solar model gives for the calendar date of day k.
C7_BandsAndLabels ==
    (~streamMode /\ outputDataset # <<>>) =>
        LET ds == outputDataset[1]
            leap == (year % 4 = 0 /\ year % 100 # 0) \/ year % 400 = 0
        IN  /\ \A N \in 1..ds.numBands :
                   ds.description[N] =
                       <<"Day", (N + 1) \div 2, IF N % 2 = 1 THEN "Sunrise" ELSE "Sunset">>
            /\ \A t \in LastWritten :
                 \A p \in DOMAIN ds.cells :
                   (/\ t[1] <= p[1] /\ p[1] < t[1] + 512
                    /\ t[2] <= p[2] /\ p[2] < t[2] + 512
                    /\ ~MaskedInFile(p[1], p[2])) =>
                       LET lon == inputFile.geoTransform[1] + p[1] * inputFile.geoTransform[2]
                                      + p[2] * inputFile.geoTransform[3]
                           lat == inputFile.geoTransform[4] + p[1] * inputFile.geoTransform[5]
                                      + p[2] * inputFile.geoTransform[6]
                           elevation == Elevation(inputFile, p[1], p[2])
                       IN  \A k \in 1..(IF leap THEN 366 ELSE 365) :
                               LET mo == MonthOfDay(k, leap)
                                   dy == k - DaysBefore(leap)[mo]
                               IN  /\ ds.cells[p][2 * k - 1] =
                                          calculateSunrise(timezoneOffset, lat, lon, elevation,
                                                           year, mo, dy)
                                   /\ ds.cells[p][2 * k] =
                                          calculateSunset(timezoneOffset, lat, lon, elevation,
                                                          year, mo, dy)

C7_DayWritten ==
    /\ ~streamMode /\ outputDataset # <<>> /\ LastWritten # {}
    /\ \E p \in DOMAIN outputDataset[1].cells :
           /\ outputDataset[1].cells[p][1] > 0
           /\ outputDataset[1].cells[p][1] < outputDataset[1].cells[p][2]
           /\ outputDataset[1].cells[p][1] # outputDataset[1].cells[p][365]

\* C8: once GDALOpen has failed, in either mode, or the whole-grid read of streaming mode
\* has failed, that call is the last one made, the operation has returned false (and main
\* exits with 1), no output dataset exists, the solar model was never invoked, and the
\* operation wrote nothing to stdout in streaming mode: no header, no block.
C8_InputFailureNoOutput ==
    LET failed(c) == ~c.ok /\ (c.op = "open" \/ (streamMode /\ c.op = "read"))
    IN  \A k \in 1..Len(ioLog) :
            failed(ioLog[k]) =>
                /\ k = Len(ioLog)
                /\ pc \in {"returned", "exit"}
                /\ success = "false"
                /\ pc = "exit" => exitCode = 1
                /\ outputDataset = <<>>
                /\ calcCalls = <<>>
                /\ streamMode =>
                       /\ StreamData = <<>>
                       /\ stdout = IF openmp THEN <<>>
                                  ELSE <<Text("OpenMP not available, running single-threaded")>>

C8_OpenFailed ==
    /\ pc = "exit" /\ exitCode = 1
    /\ ioLog = <<Call("open", 0, 0, FALSE)>>

\* C9 as stated: raster mode returns failure when the input opens and the output is
\* created but the input has no readable elevation band: no band at all, or a band of
\* which no tile could be read.
C9_NoReadableBandFails ==
    (/\ ~streamMode
     /\ pc \in {"returned", "exit"}
     /\ outputDataset # <<>>
     /\ \/ inputFile.bands = 0
        \/ \A k \in 1..Len(Calls("read")) : ~Calls("read")[k].ok)
        => success = "false"

\* the origins of the tiles of the input raster
Tiles ==
    {<<512 * i, 512 * j>> : i \in 0..((inputFile.width - 1) \div 512),
                            j \in 0..((inputFile.height - 1) \div 512)}

\* C10: in raster mode no tile is read twice or written twice, a write is issued exactly
\* after a successful read of the same tile, so never for a tile whose read failed, the
\* dataset holds cells of successfully written tiles only, no tile failure makes the
\* operation return false, and when the operation has returned after the tile loop it
\* has read every tile of the grid, has written every tile it could read, and returned
\* true (main exits with 0), whatever number of reads and writes failed.
C10_TileFailuresDoNotAbort ==
    ~streamMode =>
        LET reads == Calls("read")
            writes == Calls("write")
            tile(c) == <<c.x, c.y>>
        IN  /\ \A j, k \in 1..Len(reads) : tile(reads[j]) = tile(reads[k]) => j = k
            /\ \A j, k \in 1..Len(writes) : tile(writes[j]) = tile(writes[k]) => j = k
            /\ \A k \in 1..Len(ioLog) :
                   ioLog[k].op = "write" =>
                       /\ k > 1
                       /\ ioLog[k - 1].op = "read" /\ ioLog[k - 1].ok
                       /\ tile(ioLog[k - 1]) = tile(ioLog[k])
            /\ \A j \in 1..Len(reads), k \in 1..Len(writes) :
                   ~reads[j].ok => tile(reads[j]) # tile(writes[k])
            /\ outputDataset # <<>> =>
                   \A p \in DOMAIN outputDataset[1].cells :
                       \E k \in 1..Len(writes) :
                           /\ writes[k].ok
                           /\ tile(writes[k]) = <<512 * (p[1] \div 512), 512 * (p[2] \div 512)>>
            /\ (\E k \in 1..Len(ioLog) : ioLog[k].op \in {"read", "write"} /\ ~ioLog[k].ok)
                   => success # "false"
            /\ (pc \in {"returned", "exit"} /\ outputDataset # <<>>) =>
                   /\ success = "true"
                   /\ pc = "exit" => exitCode = 0
                   /\ {tile(reads[k]) : k \in 1..Len(reads)} = Tiles
                   /\ {tile(writes[k]) : k \in 1..Len(writes)}
                          = {tile(reads[k]) : k \in {j \in 1..Len(reads) : reads[j].ok}}

C10_CompletedAfterFailures ==
    /\ ~streamMode /\ pc = "exit" /\ exitCode = 0
    /\ Len(Calls("read")) = 4
    /\ ~Calls("read")[1].ok
    /\ Len(Calls("write")) = 3
    /\ Calls("write")[1].ok /\ ~Calls("write")[2].ok /\ Calls("write")[3].ok

\* what has been flushed of the data written with write(), in order
FlushedData == SelectSeq(SubSeq(stdout, 1, flushed), LAMBDA r : r.kind # "text")

OneThreadTile ==
    PixelLoop([entry |-> Follow(<<>>, outputBlock.n), stray |-> FALSE, calls |-> <<>>],
              Tracked(outputBlock.n), outputBlock.n).entry

\* C12: at the end of a parallel pass, whatever the number of worker threads, whichever
\* thread ran which pixel and however their stores interleaved, the buffers hold what the
\* loop run on one thread in increasing i leaves: in streaming mode sunriseBuffer and
\* sunsetBuffer of the day, in raster mode outputBlock of the tile.
C12_PassIndependentOfThreads ==
    /\ (pc = "s_pass" /\ Barrier(team, pending)) =>
           /\ sunriseBuffer = [i \in Tracked(width * height) |-> StreamPixel(i, m, d, TRUE)]
           /\ sunsetBuffer = [i \in Tracked(width * height) |-> StreamPixel(i, m, d, FALSE)]
    /\ (pc = "r_pass" /\ Barrier(team, pending)) =>
           /\ outputBlock.entry = OneThreadTile
           /\ ~outputBlock.stray

C12_TwoThreadsPassDone ==
    /\ pc = "s_pass" /\ Barrier(team, pending) /\ Len(team) = 2
    /\ currentDayOfYear = 2
    /\ DOMAIN writeLog = {0, 1, 3}
    /\ sunriseBuffer[0] > 0 /\ sunriseBuffer[1] = -1

\* cosHA of the location and date of the probe, as hourAngleSunrise computes it
ProbeCosHA ==
    CosHA(probe.latitude, Ephemeris[year][probe.month][probe.day].declination,
          Zenith(ElevationCorrection(Sqrt(probe.elevation))))

BothCalled == probe # <<>> /\ probe.sunrise # NotCalled /\ probe.sunset # NotCalled

\* C13: for one location and date, when cos(HA) > 1 or cos(HA) < -1 calculateSunrise and
\* calculateSunset both return the no-event sentinel -9999; otherwise neither of them
\* returns it.
C13_SentinelAgreed ==
    probe # <<>> =>
        LET noEvent == FGt(ProbeCosHA, ONE) \/ FLt(ProbeCosHA, 0 - ONE)
        IN  /\ probe.sunrise # NotCalled => (probe.sunrise[1] = NO_EVENT <=> noEvent)
            /\ probe.sunset # NotCalled => (probe.sunset[1] = NO_EVENT <=> noEvent)

\* both calls made in the polar night: the sentinel twice
C13_PolarNightBoth ==
    /\ BothCalled
    /\ FGt(ProbeCosHA, ONE)
    /\ probe.sunrise[1] = NO_EVENT /\ probe.sunset[1] = NO_EVENT

\* the sun both rises and sets: cosHA is a number in [-1, 1]
ProbeEventOccurs == FGe(ProbeCosHA, 0 - ONE) /\ ~FGt(ProbeCosHA, ONE)

IsHourOfDay(h) == h # NaN /\ h # Never /\ 0 <= h /\ h < 24 * HOUR

\* C14: whenever the event occurs, calculateSunrise and calculateSunset return an hour h
\* with 0 <= h < 24 for every finite timezone offset and every longitude in [-180, 180]:
\* the two loops end, and the hour is not the sentinel.
C14_HourOfDayAsStated ==
    (probe # <<>> /\ ProbeEventOccurs) =>
        /\ probe.sunrise # NotCalled =>
                IsHourOfDay(probe.sunrise[1]) /\ probe.sunrise[1] # NO_EVENT
        /\ probe.sunset # NotCalled =>
                IsHourOfDay(probe.sunset[1]) /\ probe.sunset[1] # NO_EVENT

\* how many times 24 hours the two loops took off the local time of the probe
\* (negative: added)
ProbeShifts(isSunrise) ==
    LET local == LocalTime(timezoneOffset, probe.longitude,
                           Ephemeris[year][probe.month][probe.day].eqTime,
                           HourAngle(ProbeCosHA), isSunrise)
    IN  (local - WhileAbove(WhileBelow(local))) \div (24 * HOUR)

\* both calls made and returned, on a day with a sunrise and a sunset
ProbeDayReturned ==
    /\ BothCalled
    /\ ProbeEventOccurs
    /\ probe.sunrise[1] # Never /\ probe.sunset[1] # Never

TileBefore(a, b) == a.y < b.y \/ (a.y = b.y /\ a.x < b.x)

\* the RasterIO calls of the tile loop, in the order they were made
TileCallLog == SelectSeq(ioLog, LAMBDA c : c.op \in {"read", "write"})

\* every followed iteration of the region has made all the stores in want(i)
PassComplete(n, want(_)) ==
    \A i \in Tracked(n) : i \in DOMAIN writeLog /\ writeLog[i] = want(i)

StreamStores(i) == {<<"sunriseBuffer", i>>, <<"sunsetBuffer", i>>}

\* C16: across passes the driver is strictly sequential. Streaming: while workers can
\* store for day k+1, the blocks of the days up to k are completely written and flushed,
\* and a block is only written from a pass all of whose iterations are done. Raster:
\* while the tile at (x, y) is computed the last GDAL call is the successful read of
\* that tile, and every call for another tile came before and has returned. No worker
\* thread exists outside a pass, so no pass overlaps a write of the buffer.
C16_PassesSequential ==
    /\ team # <<>> => pc \in {"s_pass", "r_pass"}
    /\ pc = "s_pass" =>
          /\ flushed = Len(stdout)
          /\ Len(FlushedData) = 5 + 3 * (currentDayOfYear - 1)
    /\ (pc = "s_day" /\ currentDayOfYear >= 1) =>
          /\ PassComplete(width * height, StreamStores)
          /\ Len(FlushedData) = 5 + 3 * currentDayOfYear
    /\ pc \in {"r_pass", "r_write"} =>
          /\ ioLog # <<>>
          /\ ioLog[Len(ioLog)] = Call("read", x, y, TRUE)
    /\ pc = "r_write" => \A i \in Tracked(outputBlock.n) : i \in DOMAIN writeLog
    /\ \A j, k \in DOMAIN TileCallLog :
          j < k => \/ TileBefore(TileCallLog[j], TileCallLog[k])
                   \/ /\ k = j + 1
                      /\ TileCallLog[j] = Call("read", TileCallLog[k].x, TileCallLog[k].y, TRUE)
                      /\ TileCallLog[k].op = "write"

\* a worker between its two stores for day 2, the block of day 1 written and flushed
C16_WorkerOfDayTwo ==
    /\ pc = "s_pass"
    /\ currentDayOfYear = 2
    /\ \E t \in DOMAIN team : team[t] # Idle
    /\ Len(FlushedData) = 8
    /\ flushed = Len(stdout)

\* C17: within one parallel pass no two iterations, hence no two threads, store to the
\* same buffer index. Streaming: iteration i stores to entry i of sunriseBuffer and of
\* sunsetBuffer only. Raster: the indices b * n + i that iteration i stores to are
\* numBands different entries, all with offset i in their plane. The inputs hold what
\* was read from the file, during and after the pass.
C17_NoSharedIndex ==
    /\ \A i, j \in DOMAIN writeLog : i # j => writeLog[i] \cap writeLog[j] = {}
    /\ pc = "s_pass" =>
          /\ \A i \in DOMAIN writeLog : writeLog[i] \subseteq StreamStores(i)
          /\ \A i \in Tracked(width * height) :
                demData[i] = Elevation(inputFile, i % width, i \div width)
          /\ geoTransform = inputFile.geoTransform
    /\ pc \in {"r_pass", "r_write"} =>
          /\ ~outputBlock.stray
          /\ \A i \in DOMAIN writeLog :
                /\ Cardinality(writeLog[i]) = numBands
                /\ \A s \in writeLog[i] :
                      s[1] = "outputBlock" /\ OwnEntry(s[2], i, outputBlock.n)
          /\ \A i \in Tracked(outputBlock.n) :
                demBlock[i] = Elevation(inputFile, x + (i % currentBlockX),
                                        y + (i \div currentBlockX))
          /\ geoTransform = inputFile.geoTransform

\* a tile pass in which three iterations have stored, each to its own 732 entries
C17_ThreeIterationsStored ==
    /\ pc = "r_pass"
    /\ Cardinality(DOMAIN writeLog) = 3
    /\ \A i \in DOMAIN writeLog : Cardinality(writeLog[i]) = 732
    /\ \E i \in DOMAIN writeLog : ~RasterMasked(demBlock[i], demNodata)
    /\ \E i \in DOMAIN writeLog : RasterMasked(demBlock[i], demNodata)

\* the pixel of the input raster has elevation zero (which is neither NaN nor the
\* no-data value of the file)
ZeroInFile(px, py) ==
    /\ Elevation(inputFile, px, py) = 0
    /\ inputFile.nodata # 0

\* C18: a pixel whose elevation is exactly zero is masked in streaming mode: the solar
\* model is not invoked for it and both its entries are -1 in every block. In raster
\* mode it is not masked: the model is invoked for it twice on each day of the year and
\* its bands hold the sunrise and the sunset computed for elevation 0.
C18_ZeroMaskedInStreamOnly ==
    /\ streamMode =>
          /\ \A p \in DOMAIN calcCalls : ~ZeroInFile(p[1], p[2])
          /\ \A k \in 1..Len(stdout) :
                stdout[k].kind \in {"sunrise", "sunset"} =>
                    \A i \in DOMAIN stdout[k].val :
                        ZeroInFile(i % inputFile.width, i \div inputFile.width)
                            => stdout[k].val[i] = -1
    /\ (~streamMode /\ outputDataset # <<>>) =>
          \A t \in LastWritten :
            \A p \in DOMAIN outputDataset[1].cells :
              (/\ t[1] <= p[1] /\ p[1] < t[1] + 512
               /\ t[2] <= p[2] /\ p[2] < t[2] + 512
               /\ ZeroInFile(p[1], p[2])) =>
                  /\ p \in DOMAIN calcCalls
                  /\ calcCalls[p] = 2 * daysInYear
                  /\ \A k \in 1..daysInYear :
                        LET geo == pixelToGeo(inputFile.geoTransform, p[1], p[2])
                            mo == MonthOfDay(k, isLeap)
                            dy == k - DaysBefore(isLeap)[mo]
                        IN  /\ outputDataset[1].cells[p][2 * k - 1] =
                                  calculateSunrise(timezoneOffset, geo.lat, geo.lon, 0,
                                                   year, mo, dy)
                            /\ outputDataset[1].cells[p][2 * k] =
                                  calculateSunset(timezoneOffset, geo.lat, geo.lon, 0,
                                                  year, mo, dy)

\* raster mode: a pixel of elevation zero written with hours of the day in its bands
C18_ZeroPixelComputed ==
    /\ ~streamMode /\ outputDataset # <<>> /\ LastWritten # {}
    /\ \E p \in DOMAIN outputDataset[1].cells :
           /\ ZeroInFile(p[1], p[2])
           /\ p \in DOMAIN calcCalls /\ calcCalls[p] = 732
           /\ outputDataset[1].cells[p][1] > 0
           /\ outputDataset[1].cells[p][1] < outputDataset[1].cells[p][2]
           /\ outputDataset[1].cells[p][2] < 24 * HOUR

\* the pixel (px, py) lies in the visited tile t
InTile(px, py, t) == t.x <= px /\ px < t.x + t.w /\ t.y <= py /\ py < t.y + t.h

\* the pixels of the visited tiles, counted tile by tile
RECURSIVE AreaOf(_, _)
AreaOf(tiles, k) == IF k = 0 THEN 0 ELSE tiles[k].w * tiles[k].h + AreaOf(tiles, k - 1)

\* ceil(a / b)
CeilDiv(a, b) == (a + b - 1) \div b

\* pixels on both sides of every tile border and at the edges of the grid
EdgePixels(size) == {c \in {0, 1, 510, 511, 512, 513, 1023, 1024, 1025, size - 1} : c < size}

\* C19: the tile loop partitions the grid. Every visited tile is 1..512 wide and high
\* and inside the grid, no two visited tiles overlap, local pixel i of a tile at
\* (x0, y0) stands for the global pixel (x0 + i mod tileWidth, y0 + i div tileWidth),
\* which is the i-th pixel of the tile's window in row order; when the loop has ended
\* the tiles number ceil(width / 512) * ceil(height / 512), their pixels number
\* width * height and every pixel of the grid lies in exactly one of them.
C19_TilesPartitionGrid ==
    pc = "r_tile" =>
        /\ \A k \in 1..Len(visited) :
              LET t == visited[k]
              IN  /\ 1 <= t.w /\ t.w <= 512 /\ 1 <= t.h /\ t.h <= 512
                  /\ 0 <= t.x /\ t.x + t.w <= width
                  /\ 0 <= t.y /\ t.y + t.h <= height
                  /\ \A i \in DOMAIN t.global :
                        /\ InTile(t.global[i][1], t.global[i][2], t)
                        /\ (t.global[i][2] - t.y) * t.w + (t.global[i][1] - t.x) = i
        /\ \A j, k \in 1..Len(visited) :
              j # k => \/ visited[j].x + visited[j].w <= visited[k].x
                       \/ visited[k].x + visited[k].w <= visited[j].x
                       \/ visited[j].y + visited[j].h <= visited[k].y
                       \/ visited[k].y + visited[k].h <= visited[j].y
        /\ y >= height =>
              /\ Len(visited) = CeilDiv(width, 512) * CeilDiv(height, 512)
              /\ AreaOf(visited, Len(visited)) = width * height
              /\ \A px \in EdgePixels(width), py \in EdgePixels(height) :
                    Cardinality({k \in 1..Len(visited) : InTile(px, py, visited[k])}) = 1

\* the loop ended on a grid of 1025 x 513 pixels: six tiles, the last one 1 x 1
C19_SixTiles ==
    /\ pc = "r_tile" /\ y >= height
    /\ width = 1025 /\ height = 513
    /\ Len(visited) = 6
    /\ visited[6].x = 1024 /\ visited[6].y = 512 /\ visited[6].w = 1 /\ visited[6].h = 1
    /\ visited[2].global[1023] = <<1023, 1>>

\* the entries of the output buffer that the write of a tile of n pixels takes for its
\* pixel i: one in each of the numBands planes
WrittenOut(i, n) == {<<"outputBlock", b * n + i>> : b \in 0..(numBands - 1)}

\* C20: at the end of the parallel pass of a tile, every entry of the output buffer that
\* the tile write reads was stored to during this tile: each followed pixel stored to
\* exactly its numBands entries, the last of them in plane numBands - 1 (the day loop
\* makes daysInYear iterations), none of them holds what was there before the pass, no
\* store fell outside them, and every index stored to is below 512 * 512 * numBands.
C20_BufferFilledByTile ==
    /\ pc = "r_write" =>
          /\ numBands = 2 * daysInYear
          /\ PassComplete(outputBlock.n, LAMBDA i : WrittenOut(i, outputBlock.n))
          /\ ~outputBlock.stray
          /\ \A i \in Tracked(outputBlock.n) :
                /\ <<"outputBlock", (numBands - 1) * outputBlock.n + i>> \in writeLog[i]
                /\ \A b \in 1..numBands : outputBlock.entry[b][i] # UNINIT
                /\ ~RasterMasked(demBlock[i], demNodata) =>
                      calcCalls[<<x + (i % currentBlockX), y + (i \div currentBlockX)>>]
                          = 2 * daysInYear
    /\ pc \in {"r_pass", "r_write"} =>
          \A i \in DOMAIN writeLog :
              \A s \in writeLog[i] :
                  0 <= s[2] /\ s[2] < BlockSize * BlockSize * numBands

\* the pass of the second tile of a grid is done: the buffer that held the first tile
\* holds the one pixel of the second in each of its 732 planes
C20_SecondTileFilled ==
    /\ pc = "r_write"
    /\ x = 512 /\ outputBlock.n = 1
    /\ Len(Calls("write")) = 1 /\ Calls("write")[1].ok
    /\ writeLog[0] = WrittenOut(0, 1)
    /\ outputBlock.entry[732][0] # UNINIT

\* the pixel whose entry has index i in the arrays of a block is masked in streaming mode
StreamMaskedInFile(i) ==
    StreamMasked(Elevation(inputFile, i % inputFile.width, i \div inputFile.width),
                 inputFile.nodata)

\* C21: every int16 value emitted in a streaming block is -1 or a minute of the day in
\* 0..1439: the rounded value of an hour in [0, 24) never reaches 1440, and a masked
\* pixel is emitted as -1.
C21_MinuteOfDayAsStated ==
    \A k \in 1..Len(stdout) :
        stdout[k].kind \in {"sunrise", "sunset"} =>
            \A i \in DOMAIN stdout[k].val :
                /\ stdout[k].val[i] = -1 \/ (0 <= stdout[k].val[i] /\ stdout[k].val[i] <= 1439)
                /\ StreamMaskedInFile(i) => stdout[k].val[i] = -1

====
